---- MODULE Spec2Model ----
(***************************************************************************)
(* dbt2looker: parse_typed_models and the typed metadata records it uses.  *)
(*                                                                         *)
(* A run of parse_typed_models is a sequence of steps over the raw         *)
(* manifest, the raw catalog, the project name and the tag.  Records that  *)
(* pydantic constructs are kept in `instances`, one node map per           *)
(* DbtManifest the run builds and keeps nodes of, so that an attribute     *)
(* assignment on a node is seen through every reference to that node and   *)
(* through no other.  Strings that are lower-cased are drawn from Strs;    *)
(* strings that carry ref(...) expressions are sequences of tokens.        *)
(***************************************************************************)
EXTENDS Integers, Sequences, FiniteSets, TLC

VARIABLES raw_manifest, raw_catalog, dbt_project_name, tag,
          pc, err, catalog_nodes, instances, dbt_models,
          typed_dbt_exposures, idx, exposure_model_views, pending,
          exposure_nodes, warnings, result, run, prev

inputs == <<raw_manifest, raw_catalog, dbt_project_name, tag>>
locals == <<pc, err, catalog_nodes, instances, dbt_models,
            typed_dbt_exposures, idx, exposure_model_views, pending,
            exposure_nodes, warnings, result>>
vars == <<inputs, locals, run, prev>>

(* ------------------------------- bounds -------------------------------- *)
MaxExposures == 2
MaxCols == 2
MaxCatCols == 1

(* ------------------------------ values --------------------------------- *)
None == "None"

Strs == {"X", "x", "y"}

\* str.lower() on the strings of Strs
Lower(s) == CASE s = "X" -> "x"
              [] s = "Y" -> "y"
              [] OTHER -> s

Names == {"a", "b"}
Project == "p"
Tags == {"t"}

\* f"model.{dbt_project_name}.{model}"
ModelKey(project, model) == <<"model", project, model>>

\* tokens of a string that may carry reference expressions
Text == <<"text">>
Ref(model) == <<"ref", model>>
Ref2(project, model) == <<"ref", project, model>>

\* _extract_all_refs: the last argument of every ref(...) of the string,
\* left to right, or None when the string has no ref(...)
ExtractAllRefs(s) ==
    LET refs == SelectSeq(s, LAMBDA t: t[1] = "ref")
    IN  IF refs = <<>>
        THEN [none |-> TRUE, refs |-> <<>>]
        ELSE [none |-> FALSE,
              refs |-> [j \in 1..Len(refs) |-> refs[j][Len(refs[j])]]]

RECURSIVE Concat(_)
\* reduce(list.__add__, lists)
Concat(lists) ==
    IF lists = <<>> THEN <<>> ELSE Head(lists) \o Concat(Tail(lists))

Range(s) == {s[j] : j \in 1..Len(s)}

(* ------------------------- typed metadata model ------------------------ *)
\* the dict comprehension of both case_insensitive_column_names validators:
\* a later item overwrites an earlier one with the same lower-cased key
LastWithKey(items, k) ==
    items[CHOOSE j \in 1..Len(items) :
            /\ Lower(items[j].key) = k
            /\ \A l \in (j+1)..Len(items) : Lower(items[l].key) # k]

\* the validator without `column.name.lower()`
RawName(column) == column.name

LowerName(column) == Lower(column.name)

\* DbtModel.case_insensitive_column_names
DbtModelColumns(items) ==
    [k \in {Lower(items[j].key) : j \in 1..Len(items)} |->
        LET column == LastWithKey(items, k)
        IN  [name |-> LowerName(column), data_type |-> column.data_type]]

\* DbtCatalogNode.case_insensitive_column_names
DbtCatalogNodeColumns(items) ==
    [k \in {Lower(items[j].key) : j \in 1..Len(items)} |->
        LET column == LastWithKey(items, k)
        IN  [name |-> LowerName(column), type |-> column.type]]

\* Union[DbtModel, DbtNode]: DbtModel when the raw node validates as one
DbtNodeOf(raw) ==
    IF raw.resource_type = "model" /\ raw.complete
    THEN [variant |-> "DbtModel", unique_id |-> raw.unique_id,
          resource_type |-> raw.resource_type, name |-> raw.name,
          tags |-> raw.tags, columns |-> DbtModelColumns(raw.columns),
          create_explorer |-> TRUE]
    ELSE [variant |-> "DbtNode", unique_id |-> raw.unique_id,
          resource_type |-> raw.resource_type]

\* Union[DbtExposure, DbtNode]
DbtExposureOf(raw) ==
    IF raw.resource_type = "exposure" /\ raw.complete
    THEN [variant |-> "DbtExposure", unique_id |-> raw.unique_id,
          resource_type |-> raw.resource_type, name |-> raw.name,
          tags |-> raw.tags, has_looker |-> raw.has_looker,
          main_model |-> raw.main_model, joins |-> raw.joins]
    ELSE [variant |-> "DbtNode", unique_id |-> raw.unique_id,
          resource_type |-> raw.resource_type]

\* DbtManifest.nodes
DbtManifestNodes(raw) ==
    [k \in {raw.nodes[j].key : j \in 1..Len(raw.nodes)} |->
        DbtNodeOf(raw.nodes[CHOOSE j \in 1..Len(raw.nodes) : raw.nodes[j].key = k])]

\* the keys of manifest.nodes in document order
NodeKeys(raw) == [j \in 1..Len(raw.nodes) |-> raw.nodes[j].key]

\* DbtManifest.exposures.values()
DbtManifestExposures(raw) ==
    [j \in 1..Len(raw.exposures) |-> DbtExposureOf(raw.exposures[j])]

\* parse_catalog_nodes
ParseCatalogNodes(raw) ==
    [u \in {raw[j].key : j \in 1..Len(raw)} |->
        [columns |-> DbtCatalogNodeColumns(
            raw[CHOOSE j \in 1..Len(raw) : raw[j].key = u].columns)]]

HasName(node) == node.variant # "DbtNode"

\* tags_match: a node without tags raises AttributeError, which is False
TagsMatch(query_tag, node) ==
    IF node.variant = "DbtNode" THEN FALSE ELSE query_tag \in node.tags

\* a lookup that takes the column from whichever catalog node has it
GetColumnTypeFromAnyNode(nodes, model_id, column_name) ==
    LET having == {u \in DOMAIN nodes : column_name \in DOMAIN nodes[u].columns}
    IN  IF model_id \notin DOMAIN nodes \/ having = {} THEN None
        ELSE nodes[CHOOSE u \in having : TRUE].columns[column_name].type

\* get_column_type_from_catalog
GetColumnTypeFromCatalog(nodes, model_id, column_name) ==
    IF model_id \notin DOMAIN nodes THEN None
    ELSE IF column_name \notin DOMAIN nodes[model_id].columns THEN None
    ELSE nodes[model_id].columns[column_name].type

(* ------------------------------ the run -------------------------------- *)
\* one DbtManifest instance shared by parse_models and the lookups
SharedInstance == "parse_typed_models"

\* the DbtManifest instance whose nodes parse_models returns
ModelsInstance == "parse_models"
\* the DbtManifest instance parse_typed_models builds for its own lookups
LookupInstance == "parse_typed_models"

Deref(ref) == instances[ref.inst][ref.key]

Fail(exception) ==
    /\ pc' = "failed"
    /\ err' = exception

\* catalog_nodes = parse_catalog_nodes(raw_catalog)
ParseCatalog ==
    /\ pc = "parse_catalog"
    /\ catalog_nodes' = ParseCatalogNodes(raw_catalog)
    /\ pc' = "parse_models"
    /\ UNCHANGED <<inputs, err, instances, dbt_models, typed_dbt_exposures, idx,
                   exposure_model_views, pending, exposure_nodes, warnings,
                   result, run, prev>>

\* the name check done after the tag filter
NamesCheckedSelected(nodes, all_models, query_tag) ==
    IF query_tag = None THEN all_models
    ELSE SelectSeq(all_models, LAMBDA k: TagsMatch(query_tag, nodes[k]))

\* the nodes parse_models checks for a name
NamesChecked(nodes, all_models, query_tag) == all_models

\* dbt_models = parse_models(raw_manifest, tag=tag)
ParseModels ==
    /\ pc = "parse_models"
    /\ LET nodes == DbtManifestNodes(raw_manifest)
           keys == NodeKeys(raw_manifest)
           all_models == SelectSeq(keys, LAMBDA k: nodes[k].resource_type = "model")
           selected == IF tag = None THEN all_models
                       ELSE SelectSeq(all_models, LAMBDA k: TagsMatch(tag, nodes[k]))
       IN  /\ instances' = [instances EXCEPT ![ModelsInstance] = nodes]
           /\ IF \E k \in Range(NamesChecked(nodes, all_models, tag)) : ~HasName(nodes[k])
              THEN Fail("SystemExit") /\ UNCHANGED dbt_models
              ELSE /\ dbt_models' = [j \in 1..Len(selected) |->
                                        [inst |-> ModelsInstance, key |-> selected[j]]]
                   /\ pc' = "parse_manifest"
                   /\ UNCHANGED err
    /\ UNCHANGED <<inputs, catalog_nodes, typed_dbt_exposures, idx,
                   exposure_model_views, pending, exposure_nodes, warnings,
                   result, run, prev>>

\* manifest = models.DbtManifest(...)
ParseManifest ==
    /\ pc = "parse_manifest"
    /\ instances' = [instances EXCEPT ![LookupInstance] = DbtManifestNodes(raw_manifest)]
    /\ pc' = "parse_exposures"
    /\ UNCHANGED <<inputs, err, catalog_nodes, dbt_models, typed_dbt_exposures, idx,
                   exposure_model_views, pending, exposure_nodes, warnings,
                   result, run, prev>>

\* parse_exposures without its tag filter
AllExposures(all_exposures, query_tag) == all_exposures

\* the exposures parse_exposures returns
SelectedExposures(all_exposures, query_tag) ==
    IF query_tag = None THEN all_exposures
    ELSE SelectSeq(all_exposures, LAMBDA e: TagsMatch(query_tag, e))

\* typed_dbt_exposures = parse_exposures(raw_manifest, tag=tag)
ParseExposures ==
    /\ pc = "parse_exposures"
    /\ LET all_exposures == DbtManifestExposures(raw_manifest)
       IN  IF \E e \in Range(all_exposures) : ~HasName(e)
           THEN Fail("SystemExit") /\ UNCHANGED <<typed_dbt_exposures, idx>>
           ELSE /\ typed_dbt_exposures' = SelectedExposures(all_exposures, tag)
                /\ idx' = 1
                /\ pc' = "walk"
                /\ UNCHANGED err
    /\ UNCHANGED <<inputs, catalog_nodes, instances, dbt_models,
                   exposure_model_views, pending, exposure_nodes, warnings,
                   result, run, prev>>

\* one pass of `for exposure in typed_dbt_exposures`
WalkExposure ==
    /\ pc = "walk"
    /\ idx <= Len(typed_dbt_exposures)
    /\ LET exposure == typed_dbt_exposures[idx]
           ref_model == ExtractAllRefs(exposure.main_model)
           join_refs == [j \in 1..Len(exposure.joins) |->
                            ExtractAllRefs(exposure.joins[j].sql_on)]
       IN  IF ~exposure.has_looker
           THEN Fail("AttributeError") /\ UNCHANGED <<exposure_model_views, idx>>
           ELSE IF ref_model.none \/ ref_model.refs = <<>>
           THEN Fail("Exception") /\ UNCHANGED <<exposure_model_views, idx>>
           ELSE IF \E j \in 1..Len(join_refs) : join_refs[j].none
           THEN /\ Fail("Exception")
                /\ exposure_model_views' = exposure_model_views \cup {ref_model.refs[1]}
                /\ UNCHANGED idx
           ELSE /\ exposure_model_views' =
                      exposure_model_views \cup {ref_model.refs[1]}
                        \cup Range(Concat([j \in 1..Len(join_refs) |-> join_refs[j].refs]))
                /\ idx' = idx + 1
                /\ UNCHANGED <<pc, err>>
    /\ UNCHANGED <<inputs, catalog_nodes, instances, dbt_models, typed_dbt_exposures,
                   pending, exposure_nodes, warnings, result, run, prev>>

\* the loop over the exposures ends; `for model in exposure_model_views` starts
EndWalk ==
    /\ pc = "walk"
    /\ idx > Len(typed_dbt_exposures)
    /\ pending' = exposure_model_views
    /\ pc' = "lookup"
    /\ UNCHANGED <<inputs, err, catalog_nodes, instances, dbt_models,
                   typed_dbt_exposures, idx, exposure_model_views, exposure_nodes,
                   warnings, result, run, prev>>

\* a loop that passes over a name that has no node
SkipMissingNode(model) ==
    /\ pending' = pending \ {model}
    /\ UNCHANGED <<pc, err, instances, exposure_nodes>>

\* what the loop does with a name that has no node under its key
MissingNode(model) == Fail("Exception") /\ UNCHANGED <<instances, exposure_nodes, pending>>

\* a loop that forgets `model_node.create_explorer = False`
LeftAsParsed(model_node) == model_node

\* model_node.create_explorer = False
NoExplorer(model_node) == [model_node EXCEPT !.create_explorer = FALSE]

\* one pass of `for model in exposure_model_views`: a set is iterated in an
\* order the program does not fix
LookupModel ==
    /\ pc = "lookup"
    /\ \E model \in pending :
         LET model_loopup == ModelKey(dbt_project_name, model)
             nodes == instances[LookupInstance]
         IN  IF model_loopup \notin DOMAIN nodes
             THEN MissingNode(model)
             ELSE IF nodes[model_loopup].variant # "DbtModel"
             THEN Fail("ValueError") /\ UNCHANGED <<instances, exposure_nodes, pending>>
             ELSE /\ instances' = [instances EXCEPT
                        ![LookupInstance][model_loopup] = NoExplorer(nodes[model_loopup])]
                  /\ exposure_nodes' = Append(exposure_nodes,
                        [inst |-> LookupInstance, key |-> model_loopup])
                  /\ pending' = pending \ {model}
                  /\ UNCHANGED <<pc, err>>
    /\ UNCHANGED <<inputs, catalog_nodes, dbt_models, typed_dbt_exposures, idx,
                   exposure_model_views, warnings, result, run, prev>>

\* a typed list that keeps the models the catalog lacks
KeepAll(nodes, model) == TRUE

\* `if model.unique_id in catalog_nodes`
InCatalog(nodes, model) == model.unique_id \in DOMAIN nodes

\* the columns of the copy of a model
TypedColumns(nodes, model) ==
    [name \in {model.columns[k].name : k \in DOMAIN model.columns} |->
        LET column == model.columns[CHOOSE k \in DOMAIN model.columns :
                                       model.columns[k].name = name]
        IN  [column EXCEPT !.data_type =
                GetColumnTypeFromCatalog(nodes, model.unique_id, column.name)]]

\* check_models_for_missing_column_types returns nothing and changes nothing
CheckModelsForMissingColumnTypes(dbt_typed_models) == dbt_typed_models

\* dbt_models + exposure_nodes, the catalog check, the typed copies, return
TypeModels ==
    /\ pc = "lookup"
    /\ pending = {}
    /\ LET all == dbt_models \o exposure_nodes
           found == SelectSeq(all, LAMBDA r: InCatalog(catalog_nodes, Deref(r)))
           dbt_typed_models ==
               [j \in 1..Len(found) |->
                   [Deref(found[j]) EXCEPT
                       !.columns = TypedColumns(catalog_nodes, Deref(found[j]))]]
       IN  /\ warnings' = {Deref(all[j]).unique_id : j \in
                              {l \in 1..Len(all) : ~InCatalog(catalog_nodes, Deref(all[l]))}}
           /\ result' = CheckModelsForMissingColumnTypes(dbt_typed_models)
    /\ pc' = "done"
    /\ UNCHANGED <<inputs, err, catalog_nodes, instances, dbt_models,
                   typed_dbt_exposures, idx, exposure_model_views, pending,
                   exposure_nodes, run, prev>>

NoRun == [pc |-> "none", err |-> None, result |-> <<>>]
NoInstances == [inst \in {ModelsInstance, LookupInstance} |-> <<>>]

\* the locals of parse_typed_models when it is entered
Fresh ==
    /\ pc = "parse_catalog"
    /\ err = None
    /\ catalog_nodes = <<>>
    /\ instances = NoInstances
    /\ dbt_models = <<>>
    /\ typed_dbt_exposures = <<>>
    /\ idx = 1
    /\ exposure_model_views = {}
    /\ pending = {}
    /\ exposure_nodes = <<>>
    /\ warnings = {}
    /\ result = <<>>

\* parse_typed_models is called a second time with the same arguments
CallAgain ==
    /\ pc \in {"done", "failed"}
    /\ run = 1
    /\ run' = 2
    /\ prev' = [pc |-> pc, err |-> err, result |-> result]
    /\ pc' = "parse_catalog"
    /\ err' = None
    /\ catalog_nodes' = <<>>
    /\ instances' = NoInstances
    /\ dbt_models' = <<>>
    /\ typed_dbt_exposures' = <<>>
    /\ idx' = 1
    /\ exposure_model_views' = {}
    /\ pending' = {}
    /\ exposure_nodes' = <<>>
    /\ warnings' = {}
    /\ result' = <<>>
    /\ UNCHANGED inputs

(* ------------------------------ the inputs ----------------------------- *)
\* all sequences over S of length at most n
RECURSIVE SeqsUpTo(_, _)
SeqsUpTo(S, n) ==
    IF n = 0 THEN {<<>>}
    ELSE LET shorter == SeqsUpTo(S, n - 1)
         IN  shorter \cup {Append(q, x) : q \in shorter, x \in S}

DistinctKeys(items) ==
    \A j, l \in 1..Len(items) : j # l => items[j].key # items[l].key

\* a column of a manifest model as dbt writes it: key and name are the same
PlainColumns == <<[key |-> "X", name |-> "X", data_type |-> None]>>

RawModel(model, tags, columns) ==
    [key |-> ModelKey(Project, model), unique_id |-> ModelKey(Project, model),
     resource_type |-> "model", complete |-> TRUE, name |-> model,
     tags |-> tags, columns |-> columns]

\* an empty model file: resource_type and unique_id only
RawEmptyModel(model) ==
    [key |-> ModelKey(Project, model), unique_id |-> ModelKey(Project, model),
     resource_type |-> "model", complete |-> FALSE, name |-> None,
     tags |-> {}, columns |-> <<>>]

\* a node that is no model, under the key `key`
RawSeed(key) ==
    [key |-> key, unique_id |-> key,
     resource_type |-> "seed", complete |-> FALSE, name |-> None,
     tags |-> {}, columns |-> <<>>]

RawExposure(tags, looker) ==
    [resource_type |-> "exposure", complete |-> TRUE, name |-> "exposure",
     tags |-> tags, has_looker |-> looker.has_looker,
     main_model |-> looker.main_model, joins |-> looker.joins]

RawEmptyExposure ==
    [resource_type |-> "exposure", complete |-> FALSE, name |-> None,
     tags |-> {}, has_looker |-> FALSE, main_model |-> <<>>, joins |-> <<>>]

\* the exposures dict: the j-th entry is keyed by its own unique_id
Exposures(entries) ==
    [j \in 1..Len(entries) |->
        [unique_id |-> <<"exposure", Project, j>>] @@ entries[j]]

Looker(main_model, joins) ==
    [has_looker |-> TRUE, main_model |-> main_model, joins |-> joins]

NoLooker == [has_looker |-> FALSE, main_model |-> <<>>, joins |-> <<>>]

JoinAB == [sql_on |-> <<Ref("a"), Text, Ref2(Project, "b")>>]

GoodLookers ==
    { Looker(<<Ref("a")>>, <<>>),
      Looker(<<Ref("b")>>, <<>>),
      Looker(<<Ref2(Project, "b")>>, <<JoinAB>>) }

BadLookers ==
    { NoLooker,
      Looker(<<Text>>, <<>>),
      Looker(<<Ref("a")>>, <<JoinAB, [sql_on |-> <<Text>>]>>) }

RawCatalogNode(model, columns) ==
    [key |-> ModelKey(Project, model), columns |-> columns]

\* the physical type the catalog gives a column, one per raw column key
TypeOf(key) == CASE key = "X" -> "int" [] key = "x" -> "str" [] OTHER -> "bool"

PlainCatalogColumns(model) ==
    IF model = "a" THEN <<[key |-> "x", name |-> "x", type |-> "int"]>>
    ELSE <<[key |-> "X", name |-> "X", type |-> "str"]>>

Catalogs ==
    { SelectSeq(<<RawCatalogNode("a", PlainCatalogColumns("a")),
                  RawCatalogNode("b", PlainCatalogColumns("b"))>>,
                LAMBDA n: n.key \in {ModelKey(Project, m) : m \in present})
      : present \in SUBSET Names }

FullCatalog ==
    <<RawCatalogNode("a", PlainCatalogColumns("a")),
      RawCatalogNode("b", PlainCatalogColumns("b"))>>

Input(nodes, exposures, catalog, query_tag) ==
    [manifest |-> [nodes |-> nodes, exposures |-> Exposures(exposures)],
     catalog |-> catalog, tag |-> query_tag]

\* well-formed documents: which models are selected, discovered, in the catalog
SelectionInputs ==
    LET Node(model) == {<<>>} \cup {<<RawModel(model, tags, PlainColumns)>> : tags \in SUBSET Tags}
        Exposure == {RawExposure(tags, looker) : tags \in SUBSET Tags, looker \in GoodLookers}
    IN  { Input(a \o b, exposures, catalog, query_tag) :
            a \in Node("a"), b \in Node("b"),
            exposures \in SeqsUpTo(Exposure, MaxExposures),
            catalog \in Catalogs, query_tag \in {None} \cup Tags }

\* degenerate documents: nodes and exposures without a name, strings without
\* a reference, nodes that are no models
DegenerateInputs ==
    LET NodeA == {<<>>, <<RawEmptyModel("a")>>, <<RawModel("a", {}, PlainColumns)>>}
        NodeB == {<<>>, <<RawEmptyModel("b")>>, <<RawModel("b", Tags, PlainColumns)>>,
                  <<RawSeed(ModelKey(Project, "b"))>>}
        Seed  == {<<>>, <<RawSeed(<<"seed", Project, "s">>)>>}
        Exposure == {RawEmptyExposure, RawExposure(Tags, Looker(<<Ref("a")>>, <<>>))}
                      \cup {RawExposure({}, looker) : looker \in BadLookers}
    IN  { Input(s \o a \o b, exposures, FullCatalog, query_tag) :
            s \in Seed, a \in NodeA, b \in NodeB,
            exposures \in SeqsUpTo(Exposure, MaxExposures),
            query_tag \in {None} \cup Tags }

\* documents whose column keys and names vary in case and differ
ColumnInputs ==
    LET Column == {[key |-> key, name |-> name, data_type |-> None] :
                      key \in Strs, name \in Strs}
        CatalogColumn == {c \in {[key |-> key, name |-> name, type |-> TypeOf(key)] :
                                     key \in Strs, name \in Strs} :
                             c.name \in {c.key, "y"}}
        Columns == {c \in SeqsUpTo(Column, MaxCols) : DistinctKeys(c)}
        CatalogColumns == {c \in SeqsUpTo(CatalogColumn, MaxCatCols) : DistinctKeys(c)}
    IN  { Input(<<RawModel("a", {}, columns), RawModel("b", {}, PlainColumns)>>,
                <<RawExposure({}, Looker(<<Ref("a")>>, <<>>))>>,
                <<RawCatalogNode("a", catalog_columns),
                  RawCatalogNode("b", PlainCatalogColumns("b"))>>,
                None) :
            columns \in Columns, catalog_columns \in CatalogColumns }

Inputs == SelectionInputs \cup DegenerateInputs \cup ColumnInputs

Init ==
    /\ \E input \in Inputs :
         /\ raw_manifest = input.manifest
         /\ raw_catalog = input.catalog
         /\ tag = input.tag
    /\ dbt_project_name = Project
    /\ Fresh
    /\ run = 1
    /\ prev = NoRun

Next ==
    \/ ParseCatalog
    \/ ParseModels
    \/ ParseManifest
    \/ ParseExposures
    \/ WalkExposure
    \/ EndWalk
    \/ LookupModel
    \/ TypeModels
    \/ CallAgain

Spec == Init /\ [][Next]_vars

(* ------------------------------ the claims ----------------------------- *)
RawNodes == Range(raw_manifest.nodes)
RawNodeKeys == {n.key : n \in RawNodes}
RawCatalogKeys == {n.key : n \in Range(raw_catalog)}
WorkingSet == dbt_models \o exposure_nodes
UniqueIds(models) == [j \in 1..Len(models) |-> models[j].unique_id]
WorkingIds == [j \in 1..Len(WorkingSet) |-> Deref(WorkingSet[j]).unique_id]

\* the names an exposure refers to: the first reference of main_model and
\* every reference of every join's sql_on
RefsOfExposure(e) ==
    (IF ExtractAllRefs(e.main_model).none THEN {}
     ELSE {ExtractAllRefs(e.main_model).refs[1]})
    \cup UNION {Range(ExtractAllRefs(e.joins[j].sql_on).refs) : j \in 1..Len(e.joins)}

\* C1: with tag=None, every model node of the manifest whose unique_id is in
\* the catalog is in the returned list with create_explorer = TRUE, and every
\* name discovered through an exposure whose node exists under
\* model.<project>.<name> and is in the catalog is in the returned list with
\* create_explorer = FALSE.
C1_ExplorerFlags ==
    (pc = "done" /\ tag = None) =>
        /\ \A n \in RawNodes :
             (n.resource_type = "model" /\ n.unique_id \in RawCatalogKeys) =>
                \E i \in 1..Len(result) :
                    result[i].unique_id = n.unique_id /\ result[i].create_explorer
        /\ \A m \in exposure_model_views :
             \A n \in RawNodes :
                (n.key = ModelKey(dbt_project_name, m) /\ n.unique_id \in RawCatalogKeys) =>
                    \E i \in 1..Len(result) :
                        result[i].unique_id = n.unique_id /\ ~result[i].create_explorer

C1_Witness ==
    /\ pc = "done" /\ tag = None
    /\ "b" \in exposure_model_views /\ "a" \notin exposure_model_views
    /\ \E i, j \in 1..Len(result) :
          /\ result[i].unique_id = ModelKey(Project, "a") /\ result[i].create_explorer
          /\ result[j].unique_id = ModelKey(Project, "b") /\ ~result[j].create_explorer

\* C2 (as stated): with a tag, the models referenced by every exposure of the
\* manifest, carrying the tag or not, are in the discovered set once the
\* exposures have been walked.
C2_AllExposuresWalked ==
    (tag # None /\ pc \in {"lookup", "done"}) =>
        \A e \in Range(raw_manifest.exposures) :
            RefsOfExposure(e) \subseteq exposure_model_views

\* C2 (amended): with a tag, the discovered set is exactly the set of models
\* referenced by the exposures whose tags contain the tag.
C2_TaggedExposuresWalked ==
    (tag # None /\ pc \in {"lookup", "done"}) =>
        exposure_model_views =
            UNION {RefsOfExposure(e) :
                     e \in {x \in Range(raw_manifest.exposures) : tag \in x.tags}}

C2_Witness ==
    /\ tag # None /\ pc = "done"
    /\ exposure_model_views # {}
    /\ \E e \in Range(raw_manifest.exposures) :
          /\ tag \notin e.tags
          /\ ~(RefsOfExposure(e) \subseteq exposure_model_views)

\* the exposures the run processes: all of them, or those carrying the tag
Processed ==
    {e \in Range(raw_manifest.exposures) : tag = None \/ tag \in e.tags}

\* C3: a list is returned only if every processed exposure has a reference in
\* meta.looker.main_model, every join's sql_on has a reference and every
\* discovered name has a node under model.<project>.<name>; a run that does
\* not return has produced no list.
C3_ListOnlyIfResolvable ==
    /\ pc = "done" =>
         \A e \in Processed :
            /\ e.has_looker
            /\ ~ExtractAllRefs(e.main_model).none
            /\ \A j \in 1..Len(e.joins) : ~ExtractAllRefs(e.joins[j].sql_on).none
            /\ \A m \in RefsOfExposure(e) : ModelKey(dbt_project_name, m) \in RawNodeKeys
    /\ pc # "done" => result = <<>>

C3_Witness ==
    /\ pc = "failed" /\ err = "Exception"
    /\ \E m \in pending : ModelKey(dbt_project_name, m) \notin RawNodeKeys
    /\ exposure_nodes # <<>>
    /\ result = <<>>

\* C4: the returned list holds, in order, exactly the working-set models whose
\* unique_id is a key of the catalog; each of the others got a warning.
C4_CatalogMissDropsOnlyThatModel ==
    pc = "done" =>
        /\ UniqueIds(result) = SelectSeq(WorkingIds, LAMBDA u: u \in RawCatalogKeys)
        /\ warnings = Range(WorkingIds) \ RawCatalogKeys

C4_Witness ==
    /\ pc = "done"
    /\ warnings # {}
    /\ result # <<>>

\* the raw catalog columns of the node keyed by unique_id
RawCatalogColumns(unique_id) ==
    (CHOOSE n \in Range(raw_catalog) : n.key = unique_id).columns

\* C5: every column of every returned model has the type of the catalog
\* column stored under the model's unique_id and the column's name, None when
\* there is none; a working-set model of the catalog is returned also when
\* none of its columns has a catalog counterpart.
C5_DataTypeFromCatalog ==
    pc = "done" =>
        /\ \A i \in 1..Len(result) : \A k \in DOMAIN result[i].columns :
             LET column == result[i].columns[k]
                 items == RawCatalogColumns(result[i].unique_id)
                 hits == {j \in 1..Len(items) : Lower(items[j].key) = column.name}
             IN  column.data_type =
                    IF hits = {} THEN None
                    ELSE items[CHOOSE j \in hits : \A l \in hits : l <= j].type
        /\ \A j \in 1..Len(WorkingSet) :
             Deref(WorkingSet[j]).unique_id \in RawCatalogKeys =>
                \E i \in 1..Len(result) :
                    result[i].unique_id = Deref(WorkingSet[j]).unique_id

C5_Witness ==
    /\ pc = "done"
    /\ \E i \in 1..Len(result) :
          /\ DOMAIN result[i].columns # {}
          /\ \A k \in DOMAIN result[i].columns : result[i].columns[k].data_type = None
    /\ \E i \in 1..Len(result) : \E k \in DOMAIN result[i].columns :
          result[i].columns[k].data_type # None

\* C6: a second run on the same manifest, catalog, project name and tag
\* returns the list the first run returned, whatever order the set of
\* discovered names is traversed in.
C6_SameListTwice ==
    (run = 2 /\ pc = "done" /\ prev.pc = "done") => result = prev.result

\* the columns of every record the run holds: manifest nodes, catalog nodes,
\* returned models
AllColumnMaps ==
    UNION {{instances[i][k].columns :
               k \in {x \in DOMAIN instances[i] : instances[i][x].variant = "DbtModel"}}
           : i \in DOMAIN instances}
    \cup {catalog_nodes[u].columns : u \in DOMAIN catalog_nodes}
    \cup {result[i].columns : i \in 1..Len(result)}

\* C7 (as stated): in every constructed DbtModel and DbtCatalogNode and in
\* every returned model, each key of columns is the lower-cased name of the
\* column stored under it.
C7_KeysAreLowerCasedNames ==
    \A columns \in AllColumnMaps :
        \A k \in DOMAIN columns : k = Lower(columns[k].name)

\* columns is what the validator makes of the raw items: the keys are the
\* lower-cased raw keys, and under each is the last raw item with that
\* lower-cased key, its name lower-cased
Normalised(columns, items) ==
    /\ DOMAIN columns = {Lower(c.key) : c \in Range(items)}
    /\ \A k \in DOMAIN columns :
         \E j \in 1..Len(items) :
            /\ Lower(items[j].key) = k
            /\ \A l \in (j+1)..Len(items) : Lower(items[l].key) # k
            /\ columns[k].name = Lower(items[j].name)
    /\ (\A c \in Range(items) : Lower(c.key) = Lower(c.name)) =>
         \A k \in DOMAIN columns : k = Lower(columns[k].name)

\* C7 (amended): in a constructed DbtModel or DbtCatalogNode each key of
\* columns is the lower-cased raw key and the column under it has the
\* lower-cased raw name, so the key is the lower-cased name when raw key and
\* raw name agree up to case; in every returned model each key is the
\* lower-cased name of its column.
C7_KeysAreLowerCasedRawKeys ==
    /\ \A i \in DOMAIN instances : \A n \in RawNodes :
         (n.key \in DOMAIN instances[i] /\ instances[i][n.key].variant = "DbtModel") =>
            Normalised(instances[i][n.key].columns, n.columns)
    /\ \A n \in Range(raw_catalog) :
         n.key \in DOMAIN catalog_nodes =>
            Normalised(catalog_nodes[n.key].columns, n.columns)
    /\ \A i \in 1..Len(result) : \A k \in DOMAIN result[i].columns :
         k = Lower(result[i].columns[k].name)

C7_Witness ==
    /\ pc = "done"
    /\ \E k \in DOMAIN instances[ModelsInstance] :
          /\ instances[ModelsInstance][k].variant = "DbtModel"
          /\ \E c \in DOMAIN instances[ModelsInstance][k].columns :
                c # instances[ModelsInstance][k].columns[c].name
    /\ \E i \in 1..Len(result) : DOMAIN result[i].columns # {}
    /\ \E n \in RawNodes : \E c \in Range(n.columns) : c.name # Lower(c.name)

\* C8 (as stated): every node record of a parsed manifest is, throughout the
\* run, what parsing made of its raw node: create_explorer true, columns
\* untyped.
C8_NodesUnchanged ==
    \A i \in DOMAIN instances : \A n \in RawNodes :
        n.key \in DOMAIN instances[i] => instances[i][n.key] = DbtNodeOf(n)

\* C8 (amended): the records parse_models returned and the columns of every
\* node record stay what parsing made them, also after the typed copies are
\* made; create_explorer is set to false in place, on the node records of
\* the manifest parse_typed_models parses itself, for exactly the discovered
\* models it has added to the working set.
C8_OnlyLookupNodesFlagged ==
    /\ \A n \in RawNodes :
         n.key \in DOMAIN instances[ModelsInstance] =>
            instances[ModelsInstance][n.key] = DbtNodeOf(n)
    /\ \A n \in RawNodes :
         n.key \in DOMAIN instances[LookupInstance] =>
            LET node == instances[LookupInstance][n.key]
            IN  IF n.key \in {exposure_nodes[j].key : j \in 1..Len(exposure_nodes)}
                THEN node = [DbtNodeOf(n) EXCEPT !.create_explorer = FALSE]
                ELSE node = DbtNodeOf(n)

C8_Witness ==
    /\ pc = "done"
    /\ \E j \in 1..Len(exposure_nodes), l \in 1..Len(dbt_models) :
          /\ exposure_nodes[j].key = dbt_models[l].key
          /\ ~Deref(exposure_nodes[j]).create_explorer
          /\ Deref(dbt_models[l]).create_explorer
    /\ \E i \in 1..Len(result) : \E k \in DOMAIN result[i].columns :
          result[i].columns[k].data_type # None

Nameless(raws) == {n \in raws : ~n.complete}
NamelessModels == Nameless({n \in RawNodes : n.resource_type = "model"})
NamelessExposures == Nameless(Range(raw_manifest.exposures))

\* C9: a manifest with a nameless model node never gets past parse_models, and
\* one with a nameless exposure never gets past parse_exposures, whatever the
\* tag: the run ends in SystemExit, before any selection by tag is kept, and
\* no list is returned.
C9_NamelessAbortsBeforeFilter ==
    /\ NamelessModels # {} =>
         /\ pc \in {"parse_catalog", "parse_models", "failed"}
         /\ dbt_models = <<>>
    /\ NamelessModels \cup NamelessExposures # {} =>
         /\ pc \in {"parse_catalog", "parse_models", "parse_manifest",
                    "parse_exposures", "failed"}
         /\ pc = "failed" => err = "SystemExit"
         /\ typed_dbt_exposures = <<>>
         /\ result = <<>>

C9_Witness ==
    /\ pc = "failed" /\ err = "SystemExit"
    /\ tag # None
    /\ NamelessModels # {}
    /\ \E n \in RawNodes : n.complete /\ tag \in n.tags

\* C10: no two entries of the returned list have the same unique_id.
C10_NoDuplicateUniqueIds ==
    pc = "done" =>
        \A i, j \in 1..Len(result) :
            i # j => result[i].unique_id # result[j].unique_id

====
